---- MODULE Spec2Model ----
(***************************************************************************)
(* http2-load-test (src/src/main.rs): an open-loop HTTP/2 load generator.  *)
(* main parses the target, connects, spawns the connection driver and the  *)
(* in-flight sampler, spawns total_requests request tasks on a fixed       *)
(* cadence, joins them and prints three statistics.                        *)
(*                                                                         *)
(* Program positions are named after the source line about to execute      *)
(* (l153 = the task is about to run line 153 of main.rs).                  *)
(*                                                                         *)
(* in_flight is an AtomicUsize.  It is modelled as a mathematical integer: *)
(* the usize would wrap exactly when this integer goes below zero.         *)
(* A request that never resolves is a task that stays at l163w forever:    *)
(* Spec has no fairness, FairSpec adds the scheduler's and the network's.  *)
(***************************************************************************)
EXTENDS Integers, Sequences, FiniteSets, TLC

\* ---------------------------------------------------------------- bounds
MaxTotal == 2
MaxSamples == 1
MaxLatency == 1

Tasks == 1..MaxTotal
Latencies == 1..MaxLatency

\* What cli.address can be, by what lines 33-41 do with it:
\*   "unparseable"  parse::<Uri>() fails                       (line 33, ?)
\*   "pathonly"     parses, no scheme and no authority ("/x")  (line 37, unwrap panics)
\*   "hostport"     parses, no scheme ("localhost:8080")       (lines 35-40 add http)
\*   "withscheme"   parses with a scheme ("http://localhost:8080")
Addresses == {"unparseable", "pathonly", "hostport", "withscheme"}

\* cli.rate, requests per second (f64).  1.0 / rate is no valid Duration
\* for rate <= 0.
Rates == {0, 1}

VARIABLES
    uri,                \* cli.address, then the parsed `uri` (by kind)
    rate,               \* cli.rate
    total_requests,     \* cli.total
    mainPc,             \* position of main
    i,                  \* iterations of the dispatch loop started (tasks spawned)
    sleeps,             \* inter-arrival sleeps (line 110) that have elapsed
    futures,            \* FuturesUnordered: join handles not yet yielded
    connPc,             \* connection-driver task (lines 66-70)
    samplerPc,          \* sampler task (lines 75-81)
    sample,             \* the sampler's local `sample` (0 while it has none)
    pc,                 \* position of each request task
    duration,           \* each task's make_request result (0 = none yet)
    in_flight,          \* AtomicUsize
    success_count,      \* Mutex<usize>
    response_times,     \* Mutex<Vec<Duration>>
    in_flight_samples,  \* Mutex<Vec<usize>>
    rt_guard,           \* main holds the response_times guard (line 118 on)
    samples_guard,      \* main holds the in_flight_samples guard (line 119 on)
    sc_read,            \* main's local success_count (line 117)
    success_rate,       \* line 121
    median_response_time, \* lines 122-130
    average_in_flight,  \* lines 131-138
    printed             \* lines 140-142 have run

vars == <<uri, rate, total_requests, mainPc, i, sleeps, futures, connPc, samplerPc,
          sample, pc, duration, in_flight, success_count, response_times,
          in_flight_samples, rt_guard, samples_guard, sc_read, success_rate,
          median_response_time, average_in_flight, printed>>

cfgVars == <<uri, rate, total_requests>>
statVars == <<sc_read, success_rate, median_response_time, average_in_flight, printed>>
sharedVars == <<in_flight, success_count, response_times, in_flight_samples>>
guardVars == <<rt_guard, samples_guard>>
taskVars == <<pc, duration>>
samplerVars == <<samplerPc, sample>>

\* ------------------------------------------------------------- helpers
Terminal == {"ok", "err_build", "err_send"}
Terminated(t) == pc[t] \in Terminal

\* The process is alive: main has neither returned nor panicked.  When main
\* returns the runtime is dropped and every spawned task stops.
Alive == mainPc \notin {"done", "error", "panic"}

\* fetch_add as a load followed by a store of a stale value: the update is lost
fetch_add_lost(v) == v

\* AtomicUsize::fetch_add(1) / fetch_sub(1)
fetch_add(v) == v + 1
fetch_sub(v) == v - 1

\* An f64 quotient of two usize values, kept exact as numerator/denominator;
\* 0.0 / 0.0 is NaN.
F64Div(n, d) == IF d = 0 /\ n = 0 THEN [nan |-> TRUE, num |-> 0, den |-> 0]
                ELSE [nan |-> FALSE, num |-> n, den |-> d]

RECURSIVE SeqSum(_)
SeqSum(s) == IF s = <<>> THEN 0 ELSE Head(s) + SeqSum(Tail(s))

\* Vec::sort: insertion into the ascending sort of the rest
RECURSIVE Insert(_, _)
Insert(x, s) == IF s = <<>> THEN <<x>>
                ELSE IF x <= Head(s) THEN <<x>> \o s
                ELSE <<Head(s)>> \o Insert(x, Tail(s))
RECURSIVE Sort(_)
Sort(s) == IF s = <<>> THEN <<>> ELSE Insert(Head(s), Sort(Tail(s)))

\* ---------------------------------------------------------------- Init
Init ==
    /\ uri \in Addresses
    /\ rate \in Rates
    /\ total_requests \in 0..MaxTotal
    /\ mainPc = "l33"
    /\ i = 0
    /\ sleeps = 0
    /\ futures = {}
    /\ connPc = "none"
    /\ samplerPc = "none"
    /\ sample = 0
    /\ pc = [t \in Tasks |-> "idle"]
    /\ duration = [t \in Tasks |-> 0]
    /\ in_flight = 0
    /\ success_count = 0
    /\ response_times = <<>>
    /\ in_flight_samples = <<>>
    /\ rt_guard = FALSE
    /\ samples_guard = FALSE
    /\ sc_read = 0
    /\ success_rate = F64Div(0, 1)
    /\ median_response_time = 0
    /\ average_in_flight = F64Div(0, 1)
    /\ printed = FALSE

\* ------------------------------------------------------- main: set-up
\* line 33: cli.address.parse::<hyper::Uri>()?
ParseAddress ==
    /\ mainPc = "l33"
    /\ mainPc' = IF uri = "unparseable" THEN "error" ELSE "l34"
    /\ UNCHANGED <<cfgVars, i, sleeps, futures, connPc, samplerVars, taskVars,
                   sharedVars, guardVars, statVars>>

\* lines 34-42: a URI without scheme is rebuilt with scheme http;
\* uri.authority().unwrap() panics when there is no authority
NormaliseScheme ==
    /\ mainPc = "l34"
    /\ mainPc' = IF uri = "pathonly" THEN "panic" ELSE "l44"
    /\ uri' = IF uri = "hostport" THEN "withscheme" ELSE uri
    /\ UNCHANGED <<rate, total_requests, i, sleeps, futures, connPc, samplerVars,
                   taskVars, sharedVars, guardVars, statVars>>

\* lines 44-56: Duration::from_secs_f64(1.0 / cli.rate) panics unless the
\* quotient is finite and non-negative; the rest is local
ComputeDelay ==
    /\ mainPc = "l44"
    /\ mainPc' = IF rate <= 0 THEN "panic" ELSE "l59"
    /\ UNCHANGED <<cfgVars, i, sleeps, futures, connPc, samplerVars, taskVars,
                   sharedVars, guardVars, statVars>>

\* Connect with the sampler already started before the connection exists
ConnectAfterSampler ==
    /\ mainPc = "l59"
    /\ samplerPc' = "sleep"
    /\ \E connected \in BOOLEAN :
          mainPc' = IF connected THEN "l63" ELSE "error"
    /\ UNCHANGED <<cfgVars, i, sleeps, futures, connPc, sample, taskVars,
                   sharedVars, guardVars, statVars>>

\* line 59: TcpStream::connect(address).await?
Connect ==
    /\ mainPc = "l59"
    /\ \E connected \in BOOLEAN :
          mainPc' = IF connected THEN "l63" ELSE "error"
    /\ UNCHANGED <<cfgVars, i, sleeps, futures, connPc, samplerVars, taskVars,
                   sharedVars, guardVars, statVars>>

\* line 63: http2::handshake(...).await?
Handshake ==
    /\ mainPc = "l63"
    /\ \E shaken \in BOOLEAN :
          mainPc' = IF shaken THEN "l66" ELSE "error"
    /\ UNCHANGED <<cfgVars, i, sleeps, futures, connPc, samplerVars, taskVars,
                   sharedVars, guardVars, statVars>>

\* lines 66-70: spawn the task that polls the connection
SpawnConn ==
    /\ mainPc = "l66"
    /\ connPc' = "running"
    /\ mainPc' = "l75"
    /\ UNCHANGED <<cfgVars, i, sleeps, futures, samplerVars, taskVars,
                   sharedVars, guardVars, statVars>>

\* lines 72-81: spawn the sampler
SpawnSampler ==
    /\ mainPc = "l75"
    /\ samplerPc' = "sleep"
    /\ mainPc' = "l87"
    /\ UNCHANGED <<cfgVars, i, sleeps, futures, connPc, sample, taskVars,
                   sharedVars, guardVars, statVars>>

\* A closed-loop dispatcher: the next task is spawned only once the earlier
\* ones have finished
SpawnClosedLoop ==
    /\ mainPc = "l87"
    /\ i < total_requests
    /\ \A t \in 1..i : Terminated(t)
    /\ i' = i + 1
    /\ pc' = [pc EXCEPT ![i + 1] = "l153"]
    /\ futures' = futures \cup {i + 1}
    /\ mainPc' = "l110"
    /\ UNCHANGED <<cfgVars, sleeps, connPc, samplerVars, duration,
                   sharedVars, guardVars, statVars>>

\* ------------------------------------------------- main: dispatch loop
\* A dispatcher whose loop does not sleep between two spawns
SpawnNoSleep ==
    /\ mainPc = "l87"
    /\ i < total_requests
    /\ i' = i + 1
    /\ pc' = [pc EXCEPT ![i + 1] = "l153"]
    /\ futures' = futures \cup {i + 1}
    /\ mainPc' = "l87"
    /\ UNCHANGED <<cfgVars, sleeps, connPc, samplerVars, duration,
                   sharedVars, guardVars, statVars>>

\* lines 87-108: one iteration spawns one request task and pushes its
\* join handle; nothing here looks at the earlier tasks
Spawn ==
    /\ mainPc = "l87"
    /\ i < total_requests
    /\ i' = i + 1
    /\ pc' = [pc EXCEPT ![i + 1] = "l153"]
    /\ futures' = futures \cup {i + 1}
    /\ mainPc' = "l110"
    /\ UNCHANGED <<cfgVars, sleeps, connPc, samplerVars, duration,
                   sharedVars, guardVars, statVars>>

\* line 110: sleep(delay).await returns
SleepDone ==
    /\ mainPc = "l110"
    /\ sleeps' = sleeps + 1
    /\ mainPc' = "l87"
    /\ UNCHANGED <<cfgVars, i, futures, connPc, samplerVars, taskVars,
                   sharedVars, guardVars, statVars>>

\* The loop leaves one iteration early (an off-by-one range)
LoopEndEarly ==
    /\ mainPc = "l87"
    /\ i + 1 >= total_requests
    /\ mainPc' = "l113"
    /\ UNCHANGED <<cfgVars, i, sleeps, futures, connPc, samplerVars, taskVars,
                   sharedVars, guardVars, statVars>>

\* line 87: the range 0..total_requests is exhausted
LoopEnd ==
    /\ mainPc = "l87"
    /\ i = total_requests
    /\ mainPc' = "l113"
    /\ UNCHANGED <<cfgVars, i, sleeps, futures, connPc, samplerVars, taskVars,
                   sharedVars, guardVars, statVars>>

\* A join that drops the handle of a task that is still running
JoinNextAbandon ==
    /\ mainPc = "l113"
    /\ \E t \in futures : futures' = futures \ {t}
    /\ UNCHANGED <<cfgVars, mainPc, i, sleeps, connPc, samplerVars,
                   taskVars, sharedVars, guardVars, statVars>>

\* line 113: futures.next().await yields the handle of a finished task
JoinNext ==
    /\ mainPc = "l113"
    /\ \E t \in futures :
          /\ Terminated(t)
          /\ futures' = futures \ {t}
    /\ UNCHANGED <<cfgVars, mainPc, i, sleeps, connPc, samplerVars, taskVars,
                   sharedVars, guardVars, statVars>>

\* The join loop gives up without draining the set of handles
JoinDoneEarly ==
    /\ mainPc = "l113"
    /\ mainPc' = "l117"
    /\ UNCHANGED <<cfgVars, i, sleeps, futures, connPc, samplerVars, taskVars,
                   sharedVars, guardVars, statVars>>

\* line 113: futures.next().await yields None on the empty set
JoinDone ==
    /\ mainPc = "l113"
    /\ futures = {}
    /\ mainPc' = "l117"
    /\ UNCHANGED <<cfgVars, i, sleeps, futures, connPc, samplerVars, taskVars,
                   sharedVars, guardVars, statVars>>

\* --------------------------------------------------- main: statistics
\* line 117: `*success_count.lock().unwrap()` copies the count; the guard
\* is a temporary dropped at the end of the statement
ReadSuccessCount ==
    /\ mainPc = "l117"
    /\ sc_read' = success_count
    /\ mainPc' = "l118"
    /\ UNCHANGED <<cfgVars, i, sleeps, futures, connPc, samplerVars, taskVars,
                   sharedVars, guardVars, success_rate, median_response_time,
                   average_in_flight, printed>>

\* line 118: the response_times guard is bound to a local and lives to the
\* end of main
LockResponseTimes ==
    /\ mainPc = "l118"
    /\ ~rt_guard
    /\ rt_guard' = TRUE
    /\ mainPc' = "l119"
    /\ UNCHANGED <<cfgVars, i, sleeps, futures, connPc, samplerVars, taskVars,
                   sharedVars, samples_guard, statVars>>

\* line 119: the in_flight_samples guard likewise
LockSamples ==
    /\ mainPc = "l119"
    /\ ~samples_guard
    /\ samples_guard' = TRUE
    /\ mainPc' = "l121"
    /\ UNCHANGED <<cfgVars, i, sleeps, futures, connPc, samplerVars, taskVars,
                   sharedVars, rt_guard, statVars>>

\* The quotient with its operands swapped
SuccessRateSwapped(count, total) ==
    LET q == F64Div(total, count)
    IN  [q EXCEPT !.num = 100 * q.num]

\* line 121
SuccessRate(count, total) ==
    LET q == F64Div(count, total)
    IN  [q EXCEPT !.num = 100 * q.num]

\* The lower median: index (n - 1) / 2
MedianLower(times) ==
    LET sorted == Sort(times)
    IN  IF sorted = <<>> THEN 0 ELSE sorted[((Len(sorted) - 1) \div 2) + 1]

\* lines 122-130
Median(times) ==
    LET sorted == Sort(times)
    IN  IF sorted = <<>> THEN 0 ELSE sorted[(Len(sorted) \div 2) + 1]

\* The average without its emptiness test
AverageInFlightUnguarded(samples) ==
    F64Div(SeqSum(samples), Len(samples))

\* lines 131-138
AverageInFlight(samples) ==
    IF Len(samples) > 0 THEN F64Div(SeqSum(samples), Len(samples))
    ELSE F64Div(0, 1)

\* lines 121-138
ComputeStats ==
    /\ mainPc = "l121"
    /\ success_rate' = SuccessRate(sc_read, total_requests)
    /\ median_response_time' = Median(response_times)
    /\ average_in_flight' = AverageInFlight(in_flight_samples)
    /\ mainPc' = "l140"
    /\ UNCHANGED <<cfgVars, i, sleeps, futures, connPc, samplerVars, taskVars,
                   sharedVars, guardVars, sc_read, printed>>

\* lines 140-142
PrintStats ==
    /\ mainPc = "l140"
    /\ printed' = TRUE
    /\ mainPc' = "l144"
    /\ UNCHANGED <<cfgVars, i, sleeps, futures, connPc, samplerVars, taskVars,
                   sharedVars, guardVars, sc_read, success_rate,
                   median_response_time, average_in_flight>>

\* A return that first waits for the sampler task to end
ReturnAfterSampler ==
    /\ mainPc = "l144"
    /\ samplerPc = "none"
    /\ rt_guard' = FALSE
    /\ samples_guard' = FALSE
    /\ mainPc' = "done"
    /\ UNCHANGED <<cfgVars, i, sleeps, futures, connPc, samplerVars, taskVars,
                   sharedVars, statVars>>

\* line 144: Ok(()); the guards are dropped and the process exits
Return ==
    /\ mainPc = "l144"
    /\ rt_guard' = FALSE
    /\ samples_guard' = FALSE
    /\ mainPc' = "done"
    /\ UNCHANGED <<cfgVars, i, sleeps, futures, connPc, samplerVars, taskVars,
                   sharedVars, statVars>>

\* The driver's error brings main down instead of being printed
ConnFailPropagates ==
    /\ Alive
    /\ connPc = "running"
    /\ connPc' = "failed"
    /\ mainPc' = "panic"
    /\ UNCHANGED <<cfgVars, i, sleeps, futures, samplerVars, taskVars,
                   sharedVars, guardVars, statVars>>

\* ------------------------------------------------- connection driver
\* lines 67-69: conn.await ends with an error, which is printed and dropped
ConnFail ==
    /\ Alive
    /\ connPc = "running"
    /\ connPc' = "failed"
    /\ UNCHANGED <<cfgVars, mainPc, i, sleeps, futures, samplerVars, taskVars,
                   sharedVars, guardVars, statVars>>

\* line 67: conn.await ends with Ok (the peer closed the connection)
ConnClose ==
    /\ Alive
    /\ connPc = "running"
    /\ connPc' = "closed"
    /\ UNCHANGED <<cfgVars, mainPc, i, sleeps, futures, samplerVars, taskVars,
                   sharedVars, guardVars, statVars>>

\* ------------------------------------------------------------ sampler
\* lines 77-78: the sleep ends and the counter is loaded
SamplerLoad ==
    /\ Alive
    /\ samplerPc = "sleep"
    /\ Len(in_flight_samples) < MaxSamples
    /\ sample' = in_flight
    /\ samplerPc' = "l79"
    /\ UNCHANGED <<cfgVars, mainPc, i, sleeps, futures, connPc, taskVars,
                   sharedVars, guardVars, statVars>>

\* The sampler keeping its guard after the push
SamplerPushKeepsLock ==
    /\ Alive
    /\ samplerPc = "l79"
    /\ ~samples_guard
    /\ in_flight_samples' = Append(in_flight_samples, sample)
    /\ sample' = 0
    /\ samplerPc' = "sleep"
    /\ samples_guard' = TRUE
    /\ UNCHANGED <<cfgVars, mainPc, i, sleeps, futures, connPc, taskVars,
                   in_flight, success_count, response_times, rt_guard,
                   statVars>>

\* The sampler pushing without taking the lock
SamplerPushUnlocked ==
    /\ Alive
    /\ samplerPc = "l79"
    /\ in_flight_samples' = Append(in_flight_samples, sample)
    /\ sample' = 0
    /\ samplerPc' = "sleep"
    /\ UNCHANGED <<cfgVars, mainPc, i, sleeps, futures, connPc, taskVars,
                   in_flight, success_count, response_times, guardVars,
                   statVars>>

\* line 79: in_flight_samples.lock().unwrap().push(sample); `sample` goes
\* out of scope at the end of the iteration
SamplerPush ==
    /\ Alive
    /\ samplerPc = "l79"
    /\ ~samples_guard
    /\ in_flight_samples' = Append(in_flight_samples, sample)
    /\ sample' = 0
    /\ samplerPc' = "sleep"
    /\ UNCHANGED <<cfgVars, mainPc, i, sleeps, futures, connPc, taskVars,
                   in_flight, success_count, response_times, guardVars,
                   statVars>>

\* ------------------------------------------------------ request tasks
\* The counter incremented before the request is built
BuildRequestCounted(t) ==
    /\ pc[t] = "l153"
    /\ in_flight' = fetch_add(in_flight)
    /\ \E built \in BOOLEAN :
          pc' = [pc EXCEPT ![t] = IF built THEN "l162" ELSE "err_build"]
    /\ UNCHANGED <<cfgVars, mainPc, i, sleeps, futures, connPc, samplerVars,
                   duration, success_count, response_times, in_flight_samples,
                   guardVars, statVars>>

\* lines 153-159: let start = Instant::now(), then
\* Request::builder()...body(...)?  (both local to the task)
BuildRequest(t) ==
    /\ pc[t] = "l153"
    /\ \E built \in BOOLEAN :
          pc' = [pc EXCEPT ![t] = IF built THEN "l162" ELSE "err_build"]
    /\ UNCHANGED <<cfgVars, mainPc, i, sleeps, futures, connPc, samplerVars, duration,
                   sharedVars, guardVars, statVars>>

\* line 162: in_flight.fetch_add(1, SeqCst)
Increment(t) ==
    /\ pc[t] = "l162"
    /\ in_flight' = fetch_add(in_flight)
    /\ pc' = [pc EXCEPT ![t] = "l163"]
    /\ UNCHANGED <<cfgVars, mainPc, i, sleeps, futures, connPc, samplerVars, duration,
                   success_count, response_times, in_flight_samples,
                   guardVars, statVars>>

\* line 163: sender.send_request(req); on a connection whose driver has
\* ended the request is refused at once, and `?` returns the error
SendRequest(t) ==
    /\ pc[t] = "l163"
    /\ pc' = [pc EXCEPT ![t] = IF connPc = "running" THEN "l163w" ELSE "err_send"]
    /\ UNCHANGED <<cfgVars, mainPc, i, sleeps, futures, connPc, samplerVars, duration,
                   sharedVars, guardVars, statVars>>

\* line 163: .await yields a response
ResolveOk(t) ==
    /\ pc[t] = "l163w"
    /\ pc' = [pc EXCEPT ![t] = "l164"]
    /\ UNCHANGED <<cfgVars, mainPc, i, sleeps, futures, connPc, samplerVars, duration,
                   sharedVars, guardVars, statVars>>

\* A request error that ends the whole run
ResolveErrAborts(t) ==
    /\ pc[t] = "l163w"
    /\ pc' = [pc EXCEPT ![t] = "err_send"]
    /\ mainPc' = "error"
    /\ UNCHANGED <<cfgVars, i, sleeps, futures, connPc, samplerVars, duration,
                   sharedVars, guardVars, statVars>>

\* line 163: .await yields an error and `?` returns it
ResolveErr(t) ==
    /\ pc[t] = "l163w"
    /\ pc' = [pc EXCEPT ![t] = "err_send"]
    /\ UNCHANGED <<cfgVars, mainPc, i, sleeps, futures, connPc, samplerVars, duration,
                   sharedVars, guardVars, statVars>>

\* line 164: in_flight.fetch_sub(1, SeqCst)
Decrement(t) ==
    /\ pc[t] = "l164"
    /\ in_flight' = fetch_sub(in_flight)
    /\ pc' = [pc EXCEPT ![t] = "l166"]
    /\ UNCHANGED <<cfgVars, mainPc, i, sleeps, futures, connPc, samplerVars, duration,
                   success_count, response_times, in_flight_samples,
                   guardVars, statVars>>

\* line 166: Ok(start.elapsed())
Elapsed(t) ==
    /\ pc[t] = "l166"
    /\ \E d \in Latencies : duration' = [duration EXCEPT ![t] = d]
    /\ pc' = [pc EXCEPT ![t] = "l102"]
    /\ UNCHANGED <<cfgVars, mainPc, i, sleeps, futures, connPc, samplerVars,
                   sharedVars, guardVars, statVars>>

\* lines 101-104: lock success_count, add one, unlock
CountSuccess(t) ==
    /\ pc[t] = "l102"
    /\ success_count' = success_count + 1
    /\ pc' = [pc EXCEPT ![t] = "l105"]
    /\ UNCHANGED <<cfgVars, mainPc, i, sleeps, futures, connPc, samplerVars, duration,
                   in_flight, response_times, in_flight_samples,
                   guardVars, statVars>>

\* A task that counts its success and drops its duration
PushDurationSkipped(t) ==
    /\ pc[t] = "l105"
    /\ duration' = [duration EXCEPT ![t] = 0]
    /\ pc' = [pc EXCEPT ![t] = "ok"]
    /\ UNCHANGED <<cfgVars, mainPc, i, sleeps, futures, connPc, samplerVars,
                   sharedVars, guardVars, statVars>>

\* lines 105-107: lock response_times, push the duration, unlock
PushDuration(t) ==
    /\ pc[t] = "l105"
    /\ ~rt_guard
    /\ response_times' = Append(response_times, duration[t])
    /\ duration' = [duration EXCEPT ![t] = 0]
    /\ pc' = [pc EXCEPT ![t] = "ok"]
    /\ UNCHANGED <<cfgVars, mainPc, i, sleeps, futures, connPc, samplerVars,
                   in_flight, success_count, in_flight_samples,
                   guardVars, statVars>>

\* lines 97-108 and 147-167: one step of request task t
make_request(t) ==
    \/ BuildRequest(t)
    \/ Increment(t)
    \/ SendRequest(t)
    \/ Decrement(t)
    \/ Elapsed(t)

Resolve(t) == ResolveOk(t) \/ ResolveErr(t)

Record(t) == CountSuccess(t) \/ PushDuration(t)

Setup ==
    \/ ParseAddress
    \/ NormaliseScheme
    \/ ComputeDelay
    \/ Connect
    \/ Handshake
    \/ SpawnConn
    \/ SpawnSampler

Dispatch == Spawn \/ SleepDone \/ LoopEnd

Join == JoinNext \/ JoinDone

Stats ==
    \/ ReadSuccessCount
    \/ LockResponseTimes
    \/ LockSamples
    \/ ComputeStats
    \/ PrintStats
    \/ Return

Main == Setup \/ Dispatch \/ Join \/ Stats

Sampler == SamplerLoad \/ SamplerPush

Conn == ConnFail \/ ConnClose

Next ==
    \/ Main
    \/ Conn
    \/ Sampler
    \/ \E t \in Tasks : make_request(t) \/ Resolve(t) \/ Record(t)

Spec == Init /\ [][Next]_vars

\* The runtime schedules every runnable task, and here every request that
\* was sent resolves; the connection driver and the sampler owe nothing.
FairSpec ==
    /\ Spec
    /\ WF_vars(Main)
    /\ \A t \in Tasks : WF_vars(make_request(t) \/ Resolve(t) \/ Record(t))

\* ------------------------------------------- the statistics on their own
\* Lines 121-144 as a function of the logs: a specification that starts
\* where main has joined every task and holds both guards (line 121), with
\* the logs of a run of total_requests requests drawn from bounded sets.
StatLen == 3
StatLatency == 3

SeqsUpTo(S, n) == UNION {[1..k -> S] : k \in 0..n}

StatInit ==
    /\ uri = "withscheme"
    /\ rate = 1
    /\ total_requests \in 0..StatLen
    /\ mainPc = "l121"
    /\ i = total_requests
    /\ sleeps = total_requests
    /\ futures = {}
    /\ connPc = "running"
    /\ samplerPc = "sleep"
    /\ sample = 0
    /\ response_times \in SeqsUpTo(1..StatLatency, total_requests)
    /\ in_flight_samples \in SeqsUpTo(0..total_requests, StatLen)
    /\ success_count = Len(response_times)
    /\ sc_read = success_count
    /\ pc = [t \in 1..total_requests |->
                IF t <= Len(response_times) THEN "ok" ELSE "err_build"]
    /\ duration = [t \in 1..total_requests |-> 0]
    /\ in_flight = 0
    /\ rt_guard = TRUE
    /\ samples_guard = TRUE
    /\ success_rate = F64Div(0, 1)
    /\ median_response_time = 0
    /\ average_in_flight = F64Div(0, 1)
    /\ printed = FALSE

StatNext == ComputeStats \/ PrintStats \/ Return

StatSpec == StatInit /\ [][StatNext]_vars

\* ================================================================ claims
SpawnedTasks == {t \in Tasks : pc[t] # "idle"}
Succeeded == {t \in Tasks : pc[t] \in {"l166", "l102", "l105", "ok"}}
Failed == {t \in Tasks : pc[t] \in {"err_build", "err_send"}}
\* tasks that have run line 162 and have not run line 164
Outstanding == {t \in Tasks : pc[t] \in {"l163", "l163w", "l164", "err_send"}}
\* main is at or past the statistics step (line 117 on)
AtStats == mainPc \in {"l117", "l118", "l119", "l121", "l140", "l144", "done"}
\* main has taken all its reads (lines 117-119) and has not yet returned
Frozen == mainPc \in {"l121", "l140", "l144"}
InLoop == mainPc \in {"l87", "l110"}

\* C1: in a run with total = N > 0 that reaches the statistics step, N tasks
\* have been spawned and the successes counted plus the requests that failed
\* are N, in the shared count and in main's copy of it.
C1_ExactlyNOutcomes ==
    (AtStats /\ total_requests > 0) =>
        /\ i = total_requests
        /\ Cardinality(SpawnedTasks) = total_requests
        /\ success_count + Cardinality(Failed) = total_requests
        /\ (mainPc # "l117" => sc_read + Cardinality(Failed) = total_requests)

C1_Witness ==
    /\ mainPc = "l121"
    /\ total_requests = MaxTotal
    /\ Failed # {}
    /\ sc_read > 0

\* C2: every request that incremented in_flight has decremented it once it
\* has completed, with a response or with an error; so the counter is 0 once
\* every task has terminated.
C2_CounterBackToZero ==
    /\ \A t \in Tasks : Terminated(t) => t \notin Outstanding
    /\ (AtStats => in_flight = 0)

\* C3: while the dispatch loop runs the dispatcher always has a step to
\* take, whatever the state of the tasks spawned so far.
C3_OpenLoop == InLoop => ENABLED Dispatch

C3_Witness ==
    /\ InLoop
    /\ total_requests = MaxTotal
    /\ \A t \in Tasks : pc[t] = "l163w"
    /\ in_flight = MaxTotal

\* C4: main is at the statistics step only when the loop has spawned every
\* task, every spawned task has terminated and every handle has been joined.
C4_JoinAllBarrier ==
    AtStats =>
        /\ i = total_requests
        /\ futures = {}
        /\ \A t \in SpawnedTasks : Terminated(t)

C4_Witness ==
    /\ printed
    /\ total_requests = MaxTotal
    /\ \A t \in Tasks : pc[t] = "ok"

\* C5: once a request has failed main is never in error, the run goes on to
\* print its statistics, and at the statistics step all requests were
\* spawned and the success count and the latency log hold exactly the
\* requests that succeeded.
C5_FailureDoesNotAbort ==
    /\ [](Failed # {} => mainPc \notin {"error", "panic"})
    /\ []((AtStats /\ Failed # {}) =>
            /\ i = total_requests
            /\ success_count = Cardinality(SpawnedTasks \ Failed)
            /\ Len(response_times) = Cardinality(SpawnedTasks \ Failed))
    /\ (Failed # {} ~> printed)

C5_Witness ==
    /\ printed
    /\ pc[1] = "err_send"
    /\ total_requests = MaxTotal
    /\ \A t \in Tasks \ {1} : pc[t] = "ok"

\* C6: in_flight is never negative and always equals the number of tasks
\* that have incremented and not decremented it, and so does every value
\* the sampler loads.
C6_CounterIsOutstanding ==
    /\ [](in_flight >= 0 /\ in_flight = Cardinality(Outstanding))
    /\ [][(samplerPc = "sleep" /\ samplerPc' = "l79")
            => sample' = Cardinality(Outstanding)]_vars

C6_Witness ==
    /\ samplerPc = "l79"
    /\ sample = MaxTotal
    /\ \E t \in Tasks : pc[t] = "l164"

\* C7: when main has ended with a set-up error (or a set-up panic) no task
\* was spawned, the connection driver and the sampler were not started and
\* no statistics were computed or printed.
C7_FatalSetupError ==
    mainPc \in {"error", "panic"} =>
        /\ i = 0
        /\ SpawnedTasks = {}
        /\ samplerPc = "none"
        /\ connPc = "none"
        /\ in_flight_samples = <<>>
        /\ ~printed

C7_Witness ==
    /\ mainPc = "error"
    /\ uri = "withscheme"

\* C8: once the connection driver has failed main is never in error, every
\* request sent from then on ends as a failed request, all requests are
\* spawned before the statistics step, and the run goes on to finish.
C8_DriverFailureNotPropagated ==
    /\ [](connPc = "failed" => mainPc \notin {"error", "panic"})
    /\ [][\A t \in Tasks :
            (connPc = "failed" /\ pc[t] = "l163" /\ pc'[t] # "l163")
                => pc'[t] = "err_send"]_vars
    /\ []((connPc = "failed" /\ AtStats) => i = total_requests)
    /\ (connPc = "failed" ~> mainPc = "done")

C8_Witness ==
    /\ connPc = "failed"
    /\ mainPc = "done"
    /\ pc[1] = "ok"
    /\ pc[MaxTotal] = "err_send"

\* C9: from main's last read (line 119) to its return no step changes the
\* success count, the latency log or the sample log, and what was printed
\* is the statistics of those logs.
C9_FrozenSnapshot ==
    /\ [][Frozen => /\ success_count' = success_count
                    /\ response_times' = response_times
                    /\ in_flight_samples' = in_flight_samples]_vars
    /\ [](printed =>
            /\ success_rate = SuccessRate(success_count, total_requests)
            /\ median_response_time = Median(response_times)
            /\ average_in_flight = AverageInFlight(in_flight_samples))

C9_Witness ==
    /\ mainPc = "l144"
    /\ samplerPc = "l79"
    /\ in_flight_samples = <<>>

\* C10: with total = N > 0 the count read at line 117 is within 0..N, the
\* success rate computed from it is a number within 0..100, and it is the
\* rate of the shared count as it stands afterwards.
C10_SuccessRateRange ==
    (AtStats /\ mainPc # "l117" /\ total_requests > 0) =>
        /\ 0 <= sc_read /\ sc_read <= total_requests
        /\ (mainPc \in {"l140", "l144", "done"} =>
              /\ ~success_rate.nan
              /\ success_rate.den > 0
              /\ 0 <= success_rate.num
              /\ success_rate.num <= 100 * success_rate.den
              /\ success_rate = SuccessRate(success_count, total_requests))

C10_Witness ==
    /\ mainPc = "l140"
    /\ total_requests = MaxTotal
    /\ success_rate.num = 100
    /\ success_rate.den = MaxTotal

Computed == mainPc \in {"l140", "l144", "done"}

\* C11: the median printed is 0 for an empty latency log and otherwise the
\* element of rank floor(n/2) (zero-based) of the log in ascending order:
\* an element of the log with at most floor(n/2) elements below it and at
\* least floor(n/2)+1 elements not above it, whatever the order of the log;
\* {1,3} gives 3 and {1,2,3} gives 2.
C11_UpperMedian ==
    Computed =>
        LET n == Len(response_times)
            m == median_response_time
            below == Cardinality({k \in 1..n : response_times[k] < m})
            upto == Cardinality({k \in 1..n : response_times[k] <= m})
        IN  /\ n = 0 => m = 0
            /\ n > 0 =>
                 /\ \E k \in 1..n : response_times[k] = m
                 /\ below <= n \div 2
                 /\ upto >= (n \div 2) + 1
            /\ response_times \in {<<1, 3>>, <<3, 1>>} => m = 3
            /\ response_times \in {<<1, 2, 3>>, <<3, 1, 2>>, <<2, 3, 1>>} => m = 2

C11_Witness ==
    /\ mainPc = "l140"
    /\ response_times = <<3, 1>>
    /\ median_response_time = 3

\* C12: with total = 0 no task is spawned and the success rate computed at
\* the statistics step is a number: the division is not performed with a
\* zero divisor.
C12_TotalZeroGuarded ==
    total_requests = 0 =>
        /\ SpawnedTasks = {}
        /\ (Computed => (~success_rate.nan /\ success_rate.den # 0))

RECURSIVE SumByValue(_, _)
SumByValue(s, v) ==
    IF v = 0 THEN 0
    ELSE v * Cardinality({k \in DOMAIN s : s[k] = v}) + SumByValue(s, v - 1)

\* C13: the average printed is the sum of the samples over their number
\* (<<1,3,2>> gives 2), it is 0 when there is no sample, and it is never a
\* quotient by zero.
C13_AverageInFlight ==
    Computed =>
        LET n == Len(in_flight_samples)
            a == average_in_flight
        IN  /\ ~a.nan
            /\ a.den # 0
            /\ n = 0 => a.num = 0
            /\ n > 0 =>
                 /\ a.den = n
                 /\ a.num = SumByValue(in_flight_samples, total_requests)
            /\ in_flight_samples = <<1, 3, 2>> => a.num = 2 * a.den

C13_Witness ==
    /\ mainPc = "l140"
    /\ in_flight_samples = <<1, 3, 2>>
    /\ average_in_flight.num = 6
    /\ average_in_flight.den = 3

\* C14: when the dispatcher spawns request k+1 exactly k inter-arrival
\* sleeps have elapsed, one between any two consecutive spawns, so the last
\* of N spawns happens after N-1 sleeps, whatever the tasks have done.
C14_DispatchCadence ==
    /\ [][i' = i + 1 => (sleeps = i /\ sleeps' = sleeps)]_vars
    /\ [][sleeps' # sleeps => (sleeps' = sleeps + 1 /\ sleeps' = i /\ i' = i)]_vars
    /\ [](mainPc = "l110" => sleeps = i - 1)

C14_Witness ==
    /\ mainPc = "l110"
    /\ i = MaxTotal
    /\ sleeps = MaxTotal - 1
    /\ pc[1] = "l163w"
    /\ pc[MaxTotal] = "ok"

\* a request that was sent and has not resolved
Pending(t) == pc[t] = "l163w"

\* C15: while a sent request has not resolved main is not at the statistics
\* step; the task leaves its wait only by the request resolving (no timeout,
\* no cancellation); and the dispatcher still has its step in the loop.
C15_NoTimeout ==
    /\ [](\A t \in Tasks : Pending(t) => (~AtStats /\ ~printed))
    /\ [][\A t \in Tasks : (Pending(t) /\ pc'[t] # pc[t])
            => pc'[t] \in {"l164", "err_send"}]_vars
    /\ []((InLoop /\ \E t \in Tasks : Pending(t)) => ENABLED Dispatch)

C15_Witness ==
    /\ mainPc = "l113"
    /\ total_requests = MaxTotal
    /\ Pending(1)
    /\ futures = {1}

\* the request of task t has been built and handed to line 162
Built(t) == pc[t] \notin {"idle", "l153", "err_build"}

\* C16: the counter is incremented only by a task whose request is built
\* and which goes on to send it; a task whose construction fails ends
\* without having touched the counter; the counter never exceeds the number
\* of tasks that have reached the send.
C16_CounterBracketsSend ==
    /\ [][in_flight' > in_flight
            => \E t \in Tasks : pc[t] = "l162" /\ pc'[t] = "l163"]_vars
    /\ [][\A t \in Tasks : (pc'[t] = "err_build" /\ pc[t] # "err_build")
            => (pc[t] = "l153" /\ in_flight' = in_flight)]_vars
    /\ [](in_flight <= Cardinality({t \in Tasks : Built(t) /\ pc[t] # "l162"}))

C16_Witness ==
    /\ pc[1] = "err_build"
    /\ pc[MaxTotal] = "l163w"
    /\ in_flight = 1

\* line 153 has run in task t
StartRecorded(t) == pc[t] \notin {"idle", "l153"}
\* line 162 has run in task t
Incremented(t) ==
    pc[t] \in {"l163", "l163w", "l164", "l166", "l102", "l105", "ok", "err_send"}

\* C17: a task records its start time after it has incremented the
\* counter: whenever the start time of a request that was built is recorded,
\* the increment has happened.
C17_StartAfterIncrement ==
    \A t \in Tasks : (StartRecorded(t) /\ Built(t)) => Incremented(t)

\* C18: the sampler is started before the first request is spawned and
\* stays; the sample-log lock is held across steps only by main's statistics
\* step, every append leaves it free, a sampler step changes nothing of main
\* or of the tasks, and while the process is alive main or a request task
\* always has a step to take.
C18_SamplerNeverBlocks ==
    /\ [](samplerPc = "none" => i = 0)
    /\ [][samplerPc # "none" => samplerPc' # "none"]_vars
    /\ [][samples_guard' # samples_guard => mainPc \in {"l119", "l144"}]_vars
    /\ [][in_flight_samples' # in_flight_samples
            => (~samples_guard /\ ~samples_guard'
                /\ UNCHANGED <<mainPc, i, futures, pc, in_flight, rt_guard>>)]_vars
    /\ [](Alive => \/ ENABLED Main
                   \/ \E t \in Tasks :
                        ENABLED (make_request(t) \/ Resolve(t) \/ Record(t)))

C18_Witness ==
    /\ mainPc = "l121"
    /\ samples_guard
    /\ samplerPc = "l79"
    /\ in_flight_samples = <<>>

\* C19: the latency log is never longer than the success count, which is
\* never above the number of tasks spawned, which is never above total; the
\* two differ by at most the tasks between the two updates; at the
\* statistics step they are equal, one count and one latency per success.
C19_CountAndLogConsistent ==
    /\ Len(response_times) <= success_count
    /\ success_count <= i
    /\ i <= total_requests
    /\ success_count - Len(response_times)
          <= Cardinality({t \in Tasks : pc[t] = "l105"})
    /\ AtStats =>
          /\ success_count = Len(response_times)
          /\ success_count = Cardinality({t \in Tasks : pc[t] = "ok"})
          /\ (mainPc # "l117" => sc_read = Len(response_times))

C19_Witness ==
    /\ \A t \in Tasks : pc[t] = "l105"
    /\ success_count = MaxTotal
    /\ response_times = <<>>

\* C20: with the dispatcher and the tasks scheduled fairly and every sent
\* request resolving, every run ends, and a run that got past the handshake
\* ends by printing its statistics and returning.
C20_Termination ==
    /\ <>(mainPc \in {"done", "error", "panic"})
    /\ (mainPc = "l66" ~> (mainPc = "done" /\ printed))

C20_Witness ==
    /\ mainPc = "done"
    /\ total_requests = MaxTotal
    /\ connPc = "running"
    /\ samplerPc = "l79"
    /\ pc[1] = "err_send"
    /\ pc[MaxTotal] = "ok"

====
